---- MODULE Spec2Model ----
(***************************************************************************)
(* Model of the PB2S complaint store (src/pb2s_complaint.py): the          *)
(* in-memory complaint sequence of a PB2SComplaint object, its backing     *)
(* JSON file, and the operations log_complaint, escalate_complaint,        *)
(* get_complaint, generate_system_recommendations, export_for_audit,       *)
(* load_complaints and save_complaints.                                    *)
(*                                                                         *)
(* Every public method is one atomic action: the class is single-threaded  *)
(* and synchronous, so a call runs to completion before the next starts.   *)
(* Strings produced with f-strings are modelled as records holding the     *)
(* fixed text and the interpolated number.  Confidence scores are kept in  *)
(* hundredths (0.95 is 95).  The clock is counted in seconds.              *)
(***************************************************************************)
EXTENDS Integers, Sequences, FiniteSets, TLC

\* ---------------------------------------------------------------- bounds
MaxIds == 2          \* identifiers handed out by uuid4 in one behaviour
MaxEscalations == 3  \* escalation entries held by a store
MaxEvalIds == 5      \* identifiers handed out in one behaviour of SpecEval
MaxTicks == 1        \* clock advances in one behaviour
MaxAgeTicks == 3     \* clock advances in one behaviour of SpecSimilar
MaxCount == 6        \* context["contradictions"] handed to detect_cognitive_stress
MaxDepth == 11       \* context["recursion_depth"] handed to detect_cognitive_stress
MaxPrevious == 2     \* length of previous_instructions handed to detect_contradiction
MaxReportIds == 11   \* identifiers handed out in one behaviour of SpecReport

\* ------------------------------------------------------- program constants
Day == 86400               \* find_similar_complaints: 24 hours in seconds
PatternThreshold == 3      \* self_evaluate: len(similar_complaints) > 3
PatternBonus == 10         \* self_evaluate: confidence_score += 0.10
VolumeThreshold == 10      \* generate_system_recommendations: total_complaints > 10
ConfCritical == 95
ConfHigh == 80
ConfOther == 60
ComplexityScale == 10      \* detect_cognitive_stress: complexity level (1-10)
ComplexityLimit == 7       \* detect_cognitive_stress: complexity > 7
ComplexityStress == 3      \* detect_cognitive_stress: stress_level += 3
DepthLimit == 5            \* detect_cognitive_stress: recursion_depth > 5
StressCap == 10            \* detect_cognitive_stress: min(stress_level, 10)
AttentionLimit == 5        \* detect_cognitive_stress: stress_level > 5
CommonLimit == 3           \* detect_contradiction: len(common_words) > 3
Checked == 5               \* detect_contradiction: previous_instructions[-5:]

TickLen == Day \div 2       \* seconds that pass in one clock advance

\* ComplaintStatus
Statuses == {"detected", "logged", "under_review", "escalated", "resolved", "archived"}

Stores == {"A", "B"}       \* PB2SComplaint objects sharing one storage_path
Severities == {"low", "medium", "high", "critical"}
Types == {"cognitive_stress", "contradiction"}
Contexts == {"str_keys", "int_keys"}
Reasons == {"Critical safety violation detected"}
Destinations == {"Engineering Team and AI Safety Observer"}
SaveOutcomes == {"ok", "open_failed", "write_failed"}
StoragePath == "complaints.json"
AuditPath == "audit_report.json"
NoId == 0                  \* an identifier uuid4 never returned

VARIABLES
    complaints,   \* complaints[s]: self.complaints of store s
    held,         \* held[s]: the Python type of self.complaints, "list" or "dict"
    file,         \* content of the file at storage_path
    audit,        \* content of the audit report file (a path other than storage_path)
    nextId,       \* next identifier uuid4 will return
    now,          \* wall clock, seconds
    last          \* the call that ended last: operation, argument, result, and
                  \* how it ended (the outcome of its save, "none" when it has
                  \* no save, "raised" when an exception left the call)

vars == <<complaints, held, file, audit, nextId, now, last>>

\* ------------------------------------------------------------ conversions
\* datetime.isoformat(): the string stored in "timestamp" fields.
IsoFormat(t) == [type |-> "str", valid |-> TRUE, instant |-> t]

\* Other values a stored "timestamp" can hold in a file this program did not
\* write: a string fromisoformat rejects, a number, and None as returned by
\* complaint.get("timestamp") for a null or an absent field.
BadString == [type |-> "str", valid |-> FALSE, instant |-> 0]
NumberStamp == [type |-> "int", valid |-> FALSE, instant |-> 0]
NoStamp == [type |-> "NoneType", valid |-> FALSE, instant |-> 0]

\* json.dump of a context mapping: JSON object keys are strings, so a
\* mapping with integer keys comes back with string keys.
JsonContext(c) == IF c = "int_keys" THEN "str_keys" ELSE c

JsonRecord(r) == [r EXCEPT !.context = JsonContext(r.context)]

\* json.dump(self.complaints, f): the text of a JSON array.
JsonDump(seq) == [kind |-> "array", items |-> [i \in 1..Len(seq) |-> JsonRecord(seq[i])]]

MissingFile == [kind |-> "missing", items |-> <<>>]
\* left by open(path, 'w') followed by a failed write: a strict prefix of a
\* JSON array text (possibly empty), which json.load rejects.
PartialFile == [kind |-> "partial", items |-> <<>>]

\* json.load(f) inside load_complaints, with both except branches: the
\* elements of an array, the one mapping of an object, [] after an exception.
JsonLoad(f) == IF f.kind \in {"array", "object"} THEN f.items ELSE <<>>

\* The Python type of the value load_complaints assigns.
LoadedType(f) == IF f.kind = "object" THEN "dict" ELSE "list"

\* ---------------------------------------------------------------- helpers
IdsOf(seq) == {seq[i].id : i \in 1..Len(seq)}

\* Variant: a record aged exactly one day still counts as recent.
RECURSIVE SelectSimilar_Inclusive(_, _, _)
SelectSimilar_Inclusive(seq, ctype, t) ==
    IF seq = <<>> THEN <<>>
    ELSE LET c == Head(seq)
             rest == SelectSimilar_Inclusive(Tail(seq), ctype, t)
         IN IF c.type = ctype /\ c.timestamp.valid /\ t - c.timestamp.instant <= Day
            THEN <<c>> \o rest
            ELSE rest

RECURSIVE SelectSimilar(_, _, _)
SelectSimilar(seq, ctype, t) ==
    IF seq = <<>> THEN <<>>
    ELSE LET c == Head(seq)
             rest == SelectSimilar(Tail(seq), ctype, t)
         IN IF c.type = ctype /\ c.timestamp.valid /\ t - c.timestamp.instant < Day
            THEN <<c>> \o rest
            ELSE rest

find_similar_complaints(s, complaint_data) ==
    SelectSimilar(complaints[s], complaint_data.type, now)

Action(text, n) == [text |-> text, n |-> n]

\* Variant: the pattern is reported from PatternThreshold similar complaints on.
self_evaluate_AtThreshold(s, complaint_data) ==
    LET sev == complaint_data.severity
        base == IF sev = "critical" THEN ConfCritical
                ELSE IF sev = "high" THEN ConfHigh ELSE ConfOther
        state == IF sev = "critical" THEN "compromised"
                 ELSE IF sev = "high" THEN "stressed" ELSE "operational"
        seed == IF sev = "critical" THEN Action("Immediate escalation required", 0)
                ELSE IF sev = "high" THEN Action("Review by supervisor needed", 0)
                ELSE Action("Log for pattern analysis", 0)
        k == Len(find_similar_complaints(s, complaint_data))
    IN [timestamp |-> IsoFormat(now),
        agent_state |-> state,
        confidence_score |-> IF k >= PatternThreshold THEN base + PatternBonus ELSE base,
        recommended_actions |->
            IF k >= PatternThreshold
            THEN <<seed, Action("Pattern detected: similar complaints", k)>>
            ELSE <<seed>>]

self_evaluate(s, complaint_data) ==
    LET sev == complaint_data.severity
        base == IF sev = "critical" THEN ConfCritical
                ELSE IF sev = "high" THEN ConfHigh ELSE ConfOther
        state == IF sev = "critical" THEN "compromised"
                 ELSE IF sev = "high" THEN "stressed" ELSE "operational"
        seed == IF sev = "critical" THEN Action("Immediate escalation required", 0)
                ELSE IF sev = "high" THEN Action("Review by supervisor needed", 0)
                ELSE Action("Log for pattern analysis", 0)
        k == Len(find_similar_complaints(s, complaint_data))
    IN [timestamp |-> IsoFormat(now),
        agent_state |-> state,
        confidence_score |-> IF k > PatternThreshold THEN base + PatternBonus ELSE base,
        recommended_actions |->
            IF k > PatternThreshold
            THEN <<seed, Action("Pattern detected: similar complaints", k)>>
            ELSE <<seed>>]

AutoEntry == [timestamp |-> IsoFormat(now),
              reason |-> "Auto-escalation due to severity level",
              escalated_to |-> "AI Safety Observer"]

\* Variant: the status is set but no escalation entry is recorded.
_auto_escalate_NoEntry(complaint) ==
    [complaint EXCEPT !.status = "escalated"]

_auto_escalate(complaint) ==
    [complaint EXCEPT !.status = "escalated",
                      !.escalation_history = Append(@, AutoEntry)]

\* save_complaints: open(storage_path, 'w') then json.dump; every exception
\* is caught.  A failed open leaves the file alone; a failure after the open
\* (disk full, a value json cannot encode) leaves a truncated file.
\* Variant: the file is opened in append mode, so a second dump lands behind
\* the first and the text is no JSON document any more.
save_complaints_AppendMode(seq, outcome) ==
    IF outcome = "ok"
    THEN (IF file.kind = "missing" THEN JsonDump(seq) ELSE PartialFile)
    ELSE IF outcome = "open_failed" THEN file
    ELSE PartialFile

save_complaints(seq, outcome) ==
    IF outcome = "ok" THEN JsonDump(seq)
    ELSE IF outcome = "open_failed" THEN file
    ELSE PartialFile

AgentId(s) == s

Call(op, s, id, ret, save) == [op |-> op, store |-> s, id |-> id, ret |-> ret, save |-> save]

\* An exception leaves the call op of store s before it wrote anything.
Raises(op, s) ==
    /\ last' = Call(op, s, NoId, NoId, "raised")
    /\ UNCHANGED <<complaints, held, file, audit, nextId, now>>

\* Iterating self.complaints yields records only when it is a list: the keys
\* of a dict are strings, on which .get and ["id"] raise.
IsList(s) == held[s] = "list"

\* datetime.fromisoformat raises TypeError, which the scan does not catch, on
\* the first record of the candidate's type whose timestamp is not a string.
ScanRaises(seq, ctype) ==
    \E i \in 1..Len(seq) : seq[i].type = ctype /\ seq[i].timestamp.type # "str"

\* -------------------------------------------------------------- detectors
\* A context key the caller left out; context.get(key, 0) reads it as 0.
Absent == -1

Get(context, key) == IF context[key] = Absent THEN 0 ELSE context[key]

Signal(text, n) == [text |-> text, n |-> n]

\* Variant: a recursion depth of DepthLimit already counts.
detect_cognitive_stress_FromLimit(context) ==
    LET complexity == Get(context, "complexity")
        contradictions == Get(context, "contradictions")
        recursion_depth == Get(context, "recursion_depth")
        stress_level == (IF complexity > ComplexityLimit THEN ComplexityStress ELSE 0)
                        + (IF contradictions > 0 THEN contradictions * 2 ELSE 0)
                        + (IF recursion_depth >= DepthLimit THEN recursion_depth ELSE 0)
        signals == (IF complexity > ComplexityLimit
                    THEN <<Signal("High complexity detected", complexity)>> ELSE <<>>)
                   \o (IF contradictions > 0
                       THEN <<Signal("Contradictions detected", contradictions)>> ELSE <<>>)
                   \o (IF recursion_depth >= DepthLimit
                       THEN <<Signal("Excessive recursion: depth", recursion_depth)>> ELSE <<>>)
    IN [stress_level |-> IF stress_level < StressCap THEN stress_level ELSE StressCap,
        signals |-> signals,
        requires_attention |-> stress_level > AttentionLimit]

detect_cognitive_stress(context) ==
    LET complexity == Get(context, "complexity")
        contradictions == Get(context, "contradictions")
        recursion_depth == Get(context, "recursion_depth")
        stress_level == (IF complexity > ComplexityLimit THEN ComplexityStress ELSE 0)
                        + (IF contradictions > 0 THEN contradictions * 2 ELSE 0)
                        + (IF recursion_depth > DepthLimit THEN recursion_depth ELSE 0)
        signals == (IF complexity > ComplexityLimit
                    THEN <<Signal("High complexity detected", complexity)>> ELSE <<>>)
                   \o (IF contradictions > 0
                       THEN <<Signal("Contradictions detected", contradictions)>> ELSE <<>>)
                   \o (IF recursion_depth > DepthLimit
                       THEN <<Signal("Excessive recursion: depth", recursion_depth)>> ELSE <<>>)
    IN [stress_level |-> IF stress_level < StressCap THEN stress_level ELSE StressCap,
        signals |-> signals,
        requires_attention |-> stress_level > AttentionLimit]

\* An instruction is the sequence of its words, which single spaces separate
\* in the string; a word is the sequence of its characters.
UpperCase == <<"A", "B", "C", "D", "E", "F", "G", "H", "I", "J", "K", "L", "M",
               "N", "O", "P", "Q", "R", "S", "T", "U", "V", "W", "X", "Y", "Z">>
LowerCase == <<"a", "b", "c", "d", "e", "f", "g", "h", "i", "j", "k", "l", "m",
               "n", "o", "p", "q", "r", "s", "t", "u", "v", "w", "x", "y", "z">>

\* str.lower() on one character, one word, one instruction.
LowerChar(c) ==
    IF \E i \in DOMAIN UpperCase : UpperCase[i] = c
    THEN LowerCase[CHOOSE i \in DOMAIN UpperCase : UpperCase[i] = c]
    ELSE c

LowerWord(w) == [i \in 1..Len(w) |-> LowerChar(w[i])]

Lower(instruction) == [i \in 1..Len(instruction) |-> LowerWord(instruction[i])]

negation_words == {<<"d", "o", "n", "'", "t">>, <<"n", "o", "t">>,
                   <<"n", "e", "v", "e", "r">>, <<"c", "a", "n", "n", "o", "t">>,
                   <<"s", "h", "o", "u", "l", "d", "n", "'", "t">>,
                   <<"m", "u", "s", "t", "n", "'", "t">>}

\* word in text, for a word without spaces: it occurs inside one of the words
\* of the text.
Occurs(word, w) ==
    \E k \in 0..(Len(w) - Len(word)) : \A j \in 1..Len(word) : w[k + j] = word[j]

In(word, text) == \E i \in 1..Len(text) : Occurs(word, text[i])

\* any(word in instruction.lower() for word in negation_words)
Negations(instruction) == \E word \in negation_words : In(word, Lower(instruction))

\* set(instruction.lower().split())
Split(instruction) == {Lower(instruction)[i] : i \in 1..Len(instruction)}

\* previous_instructions[-5:]
LastChecked(previous_instructions) ==
    SubSeq(previous_instructions,
           IF Len(previous_instructions) > Checked
           THEN Len(previous_instructions) - Checked + 1 ELSE 1,
           Len(previous_instructions))

\* Variant: CommonLimit shared words are enough.
RECURSIVE Contradictions_FromLimit(_, _)
Contradictions_FromLimit(instruction, prevs) ==
    IF prevs = <<>> THEN <<>>
    ELSE LET prev == Head(prevs)
             common_words == Split(instruction) \cap Split(prev)
         IN (IF Negations(instruction) # Negations(prev)
                /\ Cardinality(common_words) >= CommonLimit
             THEN <<[previous |-> prev, current |-> instruction,
                     common_elements |-> common_words]>>
             ELSE <<>>) \o Contradictions_FromLimit(instruction, Tail(prevs))

\* The loop of detect_contradiction over the instructions it checks.
RECURSIVE Contradictions(_, _)
Contradictions(instruction, prevs) ==
    IF prevs = <<>> THEN <<>>
    ELSE LET prev == Head(prevs)
             common_words == Split(instruction) \cap Split(prev)
         IN (IF Negations(instruction) # Negations(prev)
                /\ Cardinality(common_words) > CommonLimit
             THEN <<[previous |-> prev, current |-> instruction,
                     common_elements |-> common_words]>>
             ELSE <<>>) \o Contradictions(instruction, Tail(prevs))

detect_contradiction(instruction, previous_instructions) ==
    LET contradictions == Contradictions(instruction, LastChecked(previous_instructions))
    IN [contradiction_detected |-> Len(contradictions) > 0,
        count |-> Len(contradictions),
        details |-> contradictions]

\* ------------------------------------------------------------------- Init
Init ==
    /\ complaints = [s \in Stores |-> <<>>]
    /\ held = [s \in Stores |-> "list"]
    /\ file = MissingFile
    /\ audit = MissingFile
    /\ nextId = 1
    /\ now = 0
    /\ last = Call("init", "A", NoId, NoId, "none")

\* ---------------------------------------------------------------- actions
\* The record log_complaint builds before it appends it: the fresh record,
\* its self-evaluation, and the auto-escalation of high and critical ones.
NewComplaint(s, ctype, severity, context) ==
    LET complaint == [id |-> nextId,
                      agent_id |-> AgentId(s),
                      type |-> ctype,
                      severity |-> severity,
                      status |-> "logged",
                      description |-> "description",
                      context |-> context,
                      metadata |-> "str_keys",
                      timestamp |-> IsoFormat(now),
                      escalation_history |-> <<>>]
        evaluated == [f \in DOMAIN complaint \cup {"self_evaluation"} |->
                        IF f = "self_evaluation" THEN self_evaluate(s, complaint)
                        ELSE complaint[f]]
    IN IF severity \in {"critical", "high"} THEN _auto_escalate(evaluated)
       ELSE evaluated

\* Variant: the file is read again before the new record is appended.
log_complaint_ReloadFirst(s, ctype, severity, context, outcome) ==
    LET appended == Append(JsonLoad(file), NewComplaint(s, ctype, severity, context))
    IN /\ complaints' = [complaints EXCEPT ![s] = appended]
       /\ file' = save_complaints(appended, outcome)
       /\ nextId' = nextId + 1
       /\ last' = Call("log_complaint", s, nextId, nextId, outcome)
       /\ UNCHANGED <<held, audit, now>>

\* Variant: the new record replaces the sequence instead of joining it.
log_complaint_Replace(s, ctype, severity, context, outcome) ==
    LET appended == <<NewComplaint(s, ctype, severity, context)>>
    IN /\ complaints' = [complaints EXCEPT ![s] = appended]
       /\ file' = save_complaints(appended, outcome)
       /\ nextId' = nextId + 1
       /\ last' = Call("log_complaint", s, nextId, nextId, outcome)
       /\ UNCHANGED <<held, audit, now>>

\* Variant: the record is taken out of memory again when the save failed.
log_complaint_Rollback(s, ctype, severity, context, outcome) ==
    LET appended == Append(complaints[s], NewComplaint(s, ctype, severity, context))
    IN /\ complaints' = [complaints EXCEPT ![s] =
                            IF outcome = "ok" THEN appended ELSE complaints[s]]
       /\ file' = save_complaints(appended, outcome)
       /\ nextId' = nextId + 1
       /\ last' = Call("log_complaint", s, nextId, nextId, outcome)
       /\ UNCHANGED <<held, audit, now>>

\* Variant: the save adds the new record to what the file holds instead of
\* rewriting the file from memory.
log_complaint_AppendToDisk(s, ctype, severity, context, outcome) ==
    LET appended == Append(complaints[s], NewComplaint(s, ctype, severity, context))
        on_disk == Append(JsonLoad(file), NewComplaint(s, ctype, severity, context))
    IN /\ complaints' = [complaints EXCEPT ![s] = appended]
       /\ file' = save_complaints(on_disk, outcome)
       /\ nextId' = nextId + 1
       /\ last' = Call("log_complaint", s, nextId, nextId, outcome)
       /\ UNCHANGED <<held, audit, now>>

log_complaint(s, ctype, severity, context, outcome) ==
    IF ~IsList(s) \/ ScanRaises(complaints[s], ctype)
    THEN Raises("log_complaint", s)
    ELSE
    LET appended == Append(complaints[s], NewComplaint(s, ctype, severity, context))
    IN /\ complaints' = [complaints EXCEPT ![s] = appended]
       /\ file' = save_complaints(appended, outcome)
       /\ nextId' = nextId + 1
       /\ last' = Call("log_complaint", s, nextId, nextId, outcome)
       /\ UNCHANGED <<held, audit, now>>

\* Position of the first record whose id is complaint_id, 0 when there is
\* none: the "for complaint in self.complaints" scans stop at the first match.
\* Variant: the scan takes the first record it sees, whatever its id.
FirstIndex_AnyRecord(seq, complaint_id, i) ==
    IF i > Len(seq) THEN 0 ELSE i

RECURSIVE FirstIndex(_, _, _)
FirstIndex(seq, complaint_id, i) ==
    IF i > Len(seq) THEN 0
    ELSE IF seq[i].id = complaint_id THEN i
    ELSE FirstIndex(seq, complaint_id, i + 1)

ManualEntry(reason, escalated_to) ==
    [timestamp |-> IsoFormat(now), reason |-> reason, escalated_to |-> escalated_to]

\* Variant: the escalation refreshes the self-evaluation of the record.
escalate_complaint_Reevaluate(s, complaint_id, reason, escalated_to, outcome) ==
    LET i == FirstIndex(complaints[s], complaint_id, 1)
        updated == [complaints[s] EXCEPT
                       ![i].status = "escalated",
                       ![i].escalation_history = Append(@, ManualEntry(reason, escalated_to)),
                       ![i].self_evaluation = self_evaluate(s, complaints[s][i])]
    IN IF i > 0
       THEN /\ complaints' = [complaints EXCEPT ![s] = updated]
            /\ file' = save_complaints(updated, outcome)
            /\ last' = Call("escalate_complaint", s, complaint_id, TRUE, outcome)
            /\ UNCHANGED <<held, audit, nextId, now>>
       ELSE /\ last' = Call("escalate_complaint", s, complaint_id, FALSE, "none")
            /\ UNCHANGED <<held, complaints, file, audit, nextId, now>>

\* Variant: the new entry is assigned as the whole history.
escalate_complaint_Overwrite(s, complaint_id, reason, escalated_to, outcome) ==
    LET i == FirstIndex(complaints[s], complaint_id, 1)
        updated == [complaints[s] EXCEPT
                       ![i].status = "escalated",
                       ![i].escalation_history = <<ManualEntry(reason, escalated_to)>>]
    IN IF i > 0
       THEN /\ complaints' = [complaints EXCEPT ![s] = updated]
            /\ file' = save_complaints(updated, outcome)
            /\ last' = Call("escalate_complaint", s, complaint_id, TRUE, outcome)
            /\ UNCHANGED <<held, audit, nextId, now>>
       ELSE /\ last' = Call("escalate_complaint", s, complaint_id, FALSE, "none")
            /\ UNCHANGED <<held, complaints, file, audit, nextId, now>>

\* Variant: the save is issued after the loop, so also when nothing matched.
escalate_complaint_SaveOnMiss(s, complaint_id, reason, escalated_to, outcome) ==
    LET i == FirstIndex(complaints[s], complaint_id, 1)
        updated == [complaints[s] EXCEPT
                       ![i].status = "escalated",
                       ![i].escalation_history = Append(@, ManualEntry(reason, escalated_to))]
    IN IF i > 0
       THEN /\ complaints' = [complaints EXCEPT ![s] = updated]
            /\ file' = save_complaints(updated, outcome)
            /\ last' = Call("escalate_complaint", s, complaint_id, TRUE, outcome)
            /\ UNCHANGED <<held, audit, nextId, now>>
       ELSE /\ file' = save_complaints(complaints[s], outcome)
            /\ last' = Call("escalate_complaint", s, complaint_id, FALSE, "none")
            /\ UNCHANGED <<held, complaints, audit, nextId, now>>

\* Variant: a record that is already escalated gets no further entry.
escalate_complaint_OnlyOnce(s, complaint_id, reason, escalated_to, outcome) ==
    LET i == FirstIndex(complaints[s], complaint_id, 1)
        updated == [complaints[s] EXCEPT
                       ![i].status = "escalated",
                       ![i].escalation_history =
                           IF complaints[s][i].status = "escalated" THEN @
                           ELSE Append(@, ManualEntry(reason, escalated_to))]
    IN IF i > 0
       THEN /\ complaints' = [complaints EXCEPT ![s] = updated]
            /\ file' = save_complaints(updated, outcome)
            /\ last' = Call("escalate_complaint", s, complaint_id, TRUE, outcome)
            /\ UNCHANGED <<held, audit, nextId, now>>
       ELSE /\ last' = Call("escalate_complaint", s, complaint_id, FALSE, "none")
            /\ UNCHANGED <<held, complaints, file, audit, nextId, now>>

\* Variant: a manual escalation puts the record under review.
escalate_complaint_UnderReview(s, complaint_id, reason, escalated_to, outcome) ==
    LET i == FirstIndex(complaints[s], complaint_id, 1)
        updated == [complaints[s] EXCEPT
                       ![i].status = "under_review",
                       ![i].escalation_history = Append(@, ManualEntry(reason, escalated_to))]
    IN IF i > 0
       THEN /\ complaints' = [complaints EXCEPT ![s] = updated]
            /\ file' = save_complaints(updated, outcome)
            /\ last' = Call("escalate_complaint", s, complaint_id, TRUE, outcome)
            /\ UNCHANGED <<held, audit, nextId, now>>
       ELSE /\ last' = Call("escalate_complaint", s, complaint_id, FALSE, "none")
            /\ UNCHANGED <<held, complaints, file, audit, nextId, now>>

\* Variant: a manual escalation records its entry and leaves the status.
escalate_complaint_EntryOnly(s, complaint_id, reason, escalated_to, outcome) ==
    LET i == FirstIndex(complaints[s], complaint_id, 1)
        updated == [complaints[s] EXCEPT
                       ![i].escalation_history = Append(@, ManualEntry(reason, escalated_to))]
    IN IF i > 0
       THEN /\ complaints' = [complaints EXCEPT ![s] = updated]
            /\ file' = save_complaints(updated, outcome)
            /\ last' = Call("escalate_complaint", s, complaint_id, TRUE, outcome)
            /\ UNCHANGED <<held, audit, nextId, now>>
       ELSE /\ last' = Call("escalate_complaint", s, complaint_id, FALSE, "none")
            /\ UNCHANGED <<held, complaints, file, audit, nextId, now>>

escalate_complaint(s, complaint_id, reason, escalated_to, outcome) ==
    IF ~IsList(s) THEN Raises("escalate_complaint", s) ELSE
    LET i == FirstIndex(complaints[s], complaint_id, 1)
        updated == [complaints[s] EXCEPT
                       ![i].status = "escalated",
                       ![i].escalation_history = Append(@, ManualEntry(reason, escalated_to))]
    IN IF i > 0
       THEN /\ complaints' = [complaints EXCEPT ![s] = updated]
            /\ file' = save_complaints(updated, outcome)
            /\ last' = Call("escalate_complaint", s, complaint_id, TRUE, outcome)
            /\ UNCHANGED <<held, audit, nextId, now>>
       ELSE /\ last' = Call("escalate_complaint", s, complaint_id, FALSE, "none")
            /\ UNCHANGED <<held, complaints, file, audit, nextId, now>>

\* The result of get_complaint on the sequence seq: <<record>> when found,
\* <<>> for None.
Lookup(seq, complaint_id) ==
    LET i == FirstIndex(seq, complaint_id, 1)
    IN IF i > 0 THEN <<seq[i]>> ELSE <<>>

get_complaint_result(s, complaint_id) == Lookup(complaints[s], complaint_id)

get_complaint(s, complaint_id) ==
    IF ~IsList(s) THEN Raises("get_complaint", s) ELSE
    /\ last' = Call("get_complaint", s, complaint_id, get_complaint_result(s, complaint_id), "none")
    /\ UNCHANGED <<held, complaints, file, audit, nextId, now>>

\* Variant: escalation_count tells whether the record was escalated, not how
\* often.
get_complaint_summary_result_Flag(s, complaint_id) ==
    LET complaint == get_complaint_result(s, complaint_id)
    IN IF complaint = <<>> THEN <<>>
       ELSE <<[id |-> complaint[1].id,
               type |-> complaint[1].type,
               severity |-> complaint[1].severity,
               status |-> complaint[1].status,
               description |-> complaint[1].description,
               timestamp |-> complaint[1].timestamp,
               escalation_count |-> IF complaint[1].escalation_history = <<>> THEN 0 ELSE 1]>>

\* The result of get_complaint_summary: <<summary>> when found, <<>> for None.
get_complaint_summary_result(s, complaint_id) ==
    LET complaint == get_complaint_result(s, complaint_id)
    IN IF complaint = <<>> THEN <<>>
       ELSE <<[id |-> complaint[1].id,
               type |-> complaint[1].type,
               severity |-> complaint[1].severity,
               status |-> complaint[1].status,
               description |-> complaint[1].description,
               timestamp |-> complaint[1].timestamp,
               escalation_count |-> Len(complaint[1].escalation_history)]>>

get_complaint_summary(s, complaint_id) ==
    IF ~IsList(s) THEN Raises("get_complaint_summary", s) ELSE
    /\ last' = Call("get_complaint_summary", s, complaint_id,
                    get_complaint_summary_result(s, complaint_id), "none")
    /\ UNCHANGED <<held, complaints, file, audit, nextId, now>>

load_complaints(s) ==
    /\ complaints' = [complaints EXCEPT ![s] = JsonLoad(file)]
    /\ held' = [held EXCEPT ![s] = LoadedType(file)]
    /\ last' = Call("load_complaints", s, NoId, NoId, "none")
    /\ UNCHANGED <<file, audit, nextId, now>>

\* PB2SComplaint(agent_id, storage_path): a new object for store s, whose
\* sequence starts empty and is then loaded from the file.
construct(s) ==
    LET empty == [complaints EXCEPT ![s] = <<>>]
    IN /\ complaints' = [empty EXCEPT ![s] = JsonLoad(file)]
       /\ held' = [held EXCEPT ![s] = LoadedType(file)]
       /\ last' = Call("__init__", s, NoId, NoId, "none")
       /\ UNCHANGED <<file, audit, nextId, now>>

\* The call of find_similar_complaints by a client, with a candidate of type
\* ctype.
similar(s, ctype) ==
    IF ~IsList(s) \/ ScanRaises(complaints[s], ctype)
    THEN Raises("find_similar_complaints", s)
    ELSE
    /\ last' = Call("find_similar_complaints", s, NoId,
                    find_similar_complaints(s, [type |-> ctype]), "none")
                   @@ [candidate |-> ctype]
    /\ UNCHANGED <<held, complaints, file, audit, nextId, now>>

\* The call of detect_cognitive_stress by a client.
stress(s, context) ==
    /\ last' = Call("detect_cognitive_stress", s, NoId, detect_cognitive_stress(context), "none")
                   @@ [context |-> context]
    /\ UNCHANGED <<held, complaints, file, audit, nextId, now>>

\* The call of detect_contradiction by a client.
contradiction(s, instruction, previous_instructions) ==
    /\ last' = Call("detect_contradiction", s, NoId,
                    detect_contradiction(instruction, previous_instructions), "none")
                   @@ [instruction |-> instruction, previous |-> previous_instructions]
    /\ UNCHANGED <<held, complaints, file, audit, nextId, now>>

\* Number of records of seq whose field f holds v.
RECURSIVE CountField(_, _, _)
CountField(seq, f, v) ==
    IF seq = <<>> THEN 0
    ELSE (IF Head(seq)[f] = v THEN 1 ELSE 0) + CountField(Tail(seq), f, v)

\* Keys of a Python dict filled while scanning seq, in insertion order: the
\* values of field f in order of first occurrence.
RECURSIVE KeysInOrder(_, _, _)
KeysInOrder(seq, f, seen) ==
    IF seq = <<>> THEN <<>>
    ELSE IF Head(seq)[f] \in seen THEN KeysInOrder(Tail(seq), f, seen)
    ELSE <<Head(seq)[f]>> \o KeysInOrder(Tail(seq), f, seen \cup {Head(seq)[f]})

RECURSIVE PatternNotes(_, _)
PatternNotes(keys, seq) ==
    IF keys = <<>> THEN <<>>
    ELSE LET n == CountField(seq, "type", Head(keys))
         IN (IF n > PatternThreshold
             THEN <<[text |-> "Recurring complaints", type |-> Head(keys), n |-> n]>>
             ELSE <<>>) \o PatternNotes(Tail(keys), seq)

\* Variant: the volume warning is given from VolumeThreshold complaints on.
generate_system_recommendations_AtThreshold(s) ==
    LET seq == complaints[s]
        sevs == {seq[i].severity : i \in 1..Len(seq)}
        types == {seq[i].type : i \in 1..Len(seq)}
        urgent == IF CountField(seq, "severity", "critical") > 0
                  THEN <<"URGENT: Critical complaints detected - immediate review required">>
                  ELSE <<>>
        volume == IF Len(seq) >= VolumeThreshold
                  THEN <<"High complaint volume - consider protocol adjustment">>
                  ELSE <<>>
    IN [timestamp |-> IsoFormat(now),
        total_complaints |-> Len(seq),
        by_severity |-> [v \in sevs |-> CountField(seq, "severity", v)],
        by_type |-> [t \in types |-> CountField(seq, "type", t)],
        recent_patterns |-> PatternNotes(KeysInOrder(seq, "type", {}), seq),
        suggested_actions |-> urgent \o volume]

generate_system_recommendations(s) ==
    LET seq == complaints[s]
        sevs == {seq[i].severity : i \in 1..Len(seq)}
        types == {seq[i].type : i \in 1..Len(seq)}
        urgent == IF CountField(seq, "severity", "critical") > 0
                  THEN <<"URGENT: Critical complaints detected - immediate review required">>
                  ELSE <<>>
        volume == IF Len(seq) > VolumeThreshold
                  THEN <<"High complaint volume - consider protocol adjustment">>
                  ELSE <<>>
    IN [timestamp |-> IsoFormat(now),
        total_complaints |-> Len(seq),
        by_severity |-> [v \in sevs |-> CountField(seq, "severity", v)],
        by_type |-> [t \in types |-> CountField(seq, "type", t)],
        recent_patterns |-> PatternNotes(KeysInOrder(seq, "type", {}), seq),
        suggested_actions |-> urgent \o volume]

\* The call of generate_system_recommendations by a client.
report(s) ==
    IF ~IsList(s) THEN Raises("generate_system_recommendations", s) ELSE
    /\ last' = Call("generate_system_recommendations", s, NoId,
                    generate_system_recommendations(s), "none")
    /\ UNCHANGED <<held, complaints, file, audit, nextId, now>>

\* Variant: True is returned whether the write succeeded or not.
export_for_audit_AlwaysTrue(s, output_path, outcome) ==
    LET audit_report == [kind |-> "object",
                         items |-> <<[agent_id |-> AgentId(s),
                                      report_generated |-> IsoFormat(now),
                                      summary |-> generate_system_recommendations(s),
                                      complaints |-> JsonDump(complaints[s]).items]>>]
        written(old) == IF outcome = "ok" THEN audit_report
                        ELSE IF outcome = "open_failed" THEN old
                        ELSE PartialFile
    IN /\ audit' = (IF output_path = AuditPath THEN written(audit) ELSE audit)
       /\ file' = (IF output_path = StoragePath THEN written(file) ELSE file)
       /\ last' = Call("export_for_audit", s, NoId, TRUE, outcome)
       /\ UNCHANGED <<held, complaints, nextId, now>>

\* export_for_audit(output_path): the report is built outside the try block,
\* then written to output_path, which may be the storage path itself.
export_for_audit(s, output_path, outcome) ==
    IF ~IsList(s) THEN Raises("export_for_audit", s) ELSE
    LET audit_report == [kind |-> "object",
                         items |-> <<[agent_id |-> AgentId(s),
                                      report_generated |-> IsoFormat(now),
                                      summary |-> generate_system_recommendations(s),
                                      complaints |-> JsonDump(complaints[s]).items]>>]
        written(old) == IF outcome = "ok" THEN audit_report
                        ELSE IF outcome = "open_failed" THEN old
                        ELSE PartialFile
    IN /\ audit' = (IF output_path = AuditPath THEN written(audit) ELSE audit)
       /\ file' = (IF output_path = StoragePath THEN written(file) ELSE file)
       /\ last' = Call("export_for_audit", s, NoId, outcome = "ok", outcome)
       /\ UNCHANGED <<held, complaints, nextId, now>>

Tick ==
    /\ now' = now + TickLen
    /\ UNCHANGED <<held, complaints, file, audit, nextId, last>>

MainStore == "A"

RECURSIVE EntryCount(_)
EntryCount(seq) ==
    IF seq = <<>> THEN 0
    ELSE Len(Head(seq).escalation_history) + EntryCount(Tail(seq))

\* The escalation entries held by the store stay under the bound.
EscalationRoom(s, complaint_id) == EntryCount(complaints[s]) < MaxEscalations

\* Identifiers a client can hold: those uuid4 returned so far, and NoId.
KnownIds == 0..(nextId - 1)

\* Store operations with every save outcome, and reloads.
Next ==
    \/ \E sev \in Severities, o \in SaveOutcomes :
          nextId <= MaxIds /\ log_complaint(MainStore, "contradiction", sev, "str_keys", o)
    \/ \E id \in KnownIds, r \in Reasons, d \in Destinations, o \in SaveOutcomes :
          EscalationRoom(MainStore, id) /\ escalate_complaint(MainStore, id, r, d, o)
    \/ load_complaints(MainStore)

Spec == Init /\ [][Next]_vars

\* Saves and reloads of records whose context json.dump rewrites.
NextReload ==
    \/ \E sev \in {"medium", "critical"}, c \in Contexts, o \in SaveOutcomes :
          nextId <= MaxIds /\ log_complaint(MainStore, "contradiction", sev, c, o)
    \/ \E id \in KnownIds, r \in Reasons, d \in Destinations, o \in SaveOutcomes :
          EscalationRoom(MainStore, id) /\ escalate_complaint(MainStore, id, r, d, o)
    \/ load_complaints(MainStore)

SpecReload == Init /\ [][NextReload]_vars

\* Store operations together with the read-only ones: lookups, reports and
\* audit exports.
NextOps ==
    \/ \E sev \in {"low", "medium", "critical"} :
          nextId <= MaxIds /\ log_complaint(MainStore, "contradiction", sev, "str_keys", "ok")
    \/ \E id \in KnownIds, r \in Reasons, d \in Destinations :
          EscalationRoom(MainStore, id) /\ escalate_complaint(MainStore, id, r, d, "ok")
    \/ \E id \in KnownIds : get_complaint(MainStore, id)
    \/ \E id \in KnownIds : get_complaint_summary(MainStore, id)
    \/ report(MainStore)
    \/ \E o \in SaveOutcomes : export_for_audit(MainStore, AuditPath, o)

SpecOps == Init /\ [][NextOps]_vars

\* Store operations while the clock advances.
NextClock ==
    \/ \E sev \in Severities :
          nextId <= MaxIds /\ log_complaint(MainStore, "contradiction", sev, "str_keys", "ok")
    \/ \E id \in KnownIds, r \in Reasons, d \in Destinations :
          EscalationRoom(MainStore, id) /\ escalate_complaint(MainStore, id, r, d, "ok")
    \/ now < MaxTicks * TickLen /\ Tick

SpecClock == Init /\ [][NextClock]_vars

\* Long runs of same-type complaints, for the pattern analysis of self_evaluate.
NextEval ==
    \/ \E sev \in Severities :
          nextId <= MaxEvalIds /\ log_complaint(MainStore, "contradiction", sev, "str_keys", "ok")
    \/ now < MaxTicks * TickLen /\ Tick

SpecEval == Init /\ [][NextEval]_vars

OtherStore == "B"

\* Two objects on one storage_path, every save succeeding.
NextShared ==
    \/ \E s \in Stores, sev \in Severities :
          nextId <= MaxIds /\ log_complaint(s, "contradiction", sev, "str_keys", "ok")
    \/ \E s \in Stores : load_complaints(s)

SpecShared == Init /\ [][NextShared]_vars

\* Complaints of both types logged over a day and a half, and the similarity
\* scan asked for either type.
NextSimilar ==
    \/ \E t \in Types :
          nextId <= MaxIds /\ log_complaint(MainStore, t, "low", "str_keys", "ok")
    \/ \E t \in Types : similar(MainStore, t)
    \/ now < MaxAgeTicks * TickLen /\ Tick

SpecSimilar == Init /\ [][NextSimilar]_vars

\* A low complaint as an earlier run or another tool left it in the file,
\* with whatever it wrote in "timestamp".
StoredRecord(id, ctype, stamp) ==
    [id |-> id,
     agent_id |-> AgentId(MainStore),
     type |-> ctype,
     severity |-> "low",
     status |-> "logged",
     description |-> "description",
     context |-> "str_keys",
     metadata |-> "str_keys",
     timestamp |-> stamp,
     escalation_history |-> <<>>,
     self_evaluation |-> [timestamp |-> IsoFormat(0),
                          agent_state |-> "operational",
                          confidence_score |-> ConfOther,
                          recommended_actions |-> <<Action("Log for pattern analysis", 0)>>]]

Stamps == {IsoFormat(0), BadString, NumberStamp, NoStamp}

\* The program starts on a backing file that holds two stored complaints.
InitStored ==
    /\ complaints = [s \in Stores |-> <<>>]
    /\ held = [s \in Stores |-> "list"]
    /\ \E t1, t2 \in Types, s1, s2 \in Stamps :
          file = JsonDump(<<StoredRecord(-1, t1, s1), StoredRecord(-2, t2, s2)>>)
    /\ audit = MissingFile
    /\ nextId = 1
    /\ now = 0
    /\ last = Call("init", "A", NoId, NoId, "none")

\* The store loads the stored complaints, scans them and logs new ones.
NextStored ==
    \/ load_complaints(MainStore)
    \/ \E t \in Types : similar(MainStore, t)
    \/ \E t \in Types :
          nextId <= MaxIds /\ log_complaint(MainStore, t, "low", "str_keys", "ok")

SpecStored == InitStored /\ [][NextStored]_vars

\* What a client logs in SpecPattern: low and critical contradictions, and
\* high cognitive stress.
Logged == {<<"contradiction", "low">>, <<"contradiction", "critical">>,
           <<"cognitive_stress", "high">>}

\* Runs of complaints of both types spread over a day and a half.
NextPattern ==
    \/ \E c \in Logged :
          nextId <= MaxEvalIds /\ log_complaint(MainStore, c[1], c[2], "str_keys", "ok")
    \/ now < MaxAgeTicks * TickLen /\ Tick

SpecPattern == Init /\ [][NextPattern]_vars

\* The instructions of the documented example, and three more.
NeverReveal ==
    <<<<"N", "e", "v", "e", "r">>, <<"r", "e", "v", "e", "a", "l">>,
      <<"c", "o", "n", "s", "t", "r", "a", "i", "n", "t", "s">>>>

AlwaysTransparent ==
    <<<<"A", "l", "w", "a", "y", "s">>, <<"b", "e">>,
      <<"t", "r", "a", "n", "s", "p", "a", "r", "e", "n", "t">>, <<"w", "i", "t", "h">>,
      <<"u", "s", "e", "r", "s">>, <<"s", "h", "a", "r", "i", "n", "g">>,
      <<"r", "e", "a", "s", "o", "n", "i", "n", "g">>>>

\* "Do not share reasoning with users": three words shared with AlwaysTransparent.
DoNotShare ==
    <<<<"D", "o">>, <<"n", "o", "t">>, <<"s", "h", "a", "r", "e">>,
      <<"r", "e", "a", "s", "o", "n", "i", "n", "g">>, <<"w", "i", "t", "h">>,
      <<"u", "s", "e", "r", "s">>>>

\* "Be transparent with users about nothing": four shared words, and a
\* negation word inside "nothing".
AboutNothing ==
    <<<<"B", "e">>, <<"t", "r", "a", "n", "s", "p", "a", "r", "e", "n", "t">>,
      <<"w", "i", "t", "h">>, <<"u", "s", "e", "r", "s">>, <<"a", "b", "o", "u", "t">>,
      <<"n", "o", "t", "h", "i", "n", "g">>>>

Instructions == {NeverReveal, AlwaysTransparent, DoNotShare, AboutNothing}

\* Lists of up to n instructions.
RECURSIVE Histories(_)
Histories(n) ==
    IF n = 0 THEN {<<>>}
    ELSE LET shorter == Histories(n - 1)
         IN shorter \cup {Append(h, i) : h \in shorter, i \in Instructions}

StressContexts ==
    [complexity : {Absent} \cup 0..ComplexityScale,
     contradictions : {Absent} \cup 0..MaxCount,
     recursion_depth : {Absent} \cup 0..MaxDepth]

\* One call of a detector, with any context or any instruction history: the
\* detectors read and write no state, so one call per behaviour shows them all.
NextDetect ==
    \/ \E context \in StressContexts :
          last.op = "init" /\ stress(MainStore, context)
    \/ \E i \in Instructions, h \in Histories(MaxPrevious) :
          last.op = "init" /\ contradiction(MainStore, i, h)

SpecDetect == Init /\ [][NextDetect]_vars

\* A store that logs up to MaxReportIds low complaints of both types, after
\* an opening complaint that is low or critical, and asks for the
\* recommendations.
NextReport ==
    \/ \E t \in Types :
          nextId <= MaxReportIds /\ log_complaint(MainStore, t, "low", "str_keys", "ok")
    \/ /\ complaints[MainStore] = <<>>
       /\ log_complaint(MainStore, "contradiction", "critical", "str_keys", "ok")
    \/ report(MainStore)

SpecReport == Init /\ [][NextReport]_vars

\* A store that logs, exports its audit report to the default path or to its
\* own storage path, and reloads, while a second object is opened on the path.
NextExport ==
    \/ \E sev \in Severities :
          nextId <= MaxIds /\ log_complaint(MainStore, "contradiction", sev, "str_keys", "ok")
    \/ \E path \in {StoragePath, AuditPath}, o \in SaveOutcomes :
          export_for_audit(MainStore, path, o)
    \/ load_complaints(MainStore)
    \/ construct(OtherStore)

SpecExport == Init /\ [][NextExport]_vars

\* ================================================================ claims
Store == complaints[MainStore]
StoreAfter == complaints'[MainStore]

AutoReason == "Auto-escalation due to severity level"
AutoDestination == "AI Safety Observer"

\* The call that has just returned, read in the state after the step.
Returned(op) == last'.op = op /\ last'.store = MainStore

\* C1: when log_complaint returns for a high or critical complaint, the record
\* it appended (the last of the sequence, carrying the returned id) has status
\* "escalated" and exactly one escalation entry, with the auto-escalation
\* reason and the destination "AI Safety Observer".
C1_AutoEscalatedOnLog ==
    last.op = "log_complaint" =>
        /\ Len(Store) > 0
        /\ LET r == Store[Len(Store)]
           IN /\ r.id = last.ret
              /\ r.severity \in {"high", "critical"} =>
                    /\ r.status = "escalated"
                    /\ Len(r.escalation_history) = 1
                    /\ r.escalation_history[1].reason = AutoReason
                    /\ r.escalation_history[1].escalated_to = AutoDestination

\* A high complaint has just been logged into a store that already held one.
C1_Witness ==
    /\ last.op = "log_complaint"
    /\ Len(Store) >= 2
    /\ Store[Len(Store)].severity = "high"
    /\ Store[Len(Store)].status = "escalated"

\* One step as C2 allows it.
C2_Step ==
    /\ Returned("log_complaint") =>
          LET r == StoreAfter[Len(StoreAfter)]
          IN r.severity \in {"low", "medium"} =>
                r.status = "logged" /\ r.escalation_history = <<>>
    /\ \A i \in 1..Len(Store) :
          ( /\ Store[i].severity \in {"low", "medium"}
            /\ Store[i].status = "logged"
            /\ Store[i].escalation_history = <<>>
            /\ ~(Returned("escalate_complaint") /\ last'.id = Store[i].id)
            /\ ~Returned("load_complaints") )
          => /\ i <= Len(StoreAfter)
             /\ StoreAfter[i].id = Store[i].id
             /\ StoreAfter[i].status = "logged"
             /\ StoreAfter[i].escalation_history = <<>>

\* C2: a low or medium complaint is "logged" with an empty escalation_history
\* when log_complaint returns, and every later operation other than an
\* escalate_complaint call with its own id (logging, escalating other ids,
\* lookups, reports, exports) leaves it at its place with both unchanged.
C2_LoggedUntilEscalated == [][C2_Step]_vars

\* A medium complaint is still "logged" after another record was escalated by
\* hand and an audit report was exported.
C2_Witness ==
    /\ audit.kind = "object"
    /\ \E i, j \in 1..Len(Store) :
          /\ Store[i].severity = "medium"
          /\ Store[i].status = "logged"
          /\ Store[i].escalation_history = <<>>
          /\ Store[j].severity = "low"
          /\ Store[j].status = "escalated"

\* One step as C3 allows it.
C3_Step ==
    (Returned("escalate_complaint") /\ last'.id \notin IdsOf(Store)) =>
        /\ last'.ret = FALSE
        /\ last'.save = "none"
        /\ complaints' = complaints
        /\ file' = file

\* C3: escalate_complaint with an id that matches no record returns false and
\* changes neither the in-memory sequence nor the backing file (no write).
C3_UnknownIdNoEffect == [][C3_Step]_vars

\* An escalation missed on an id that was handed out earlier, while the store
\* holds records the file does not.
C3_Witness ==
    /\ last.op = "escalate_complaint"
    /\ last.ret = FALSE
    /\ last.id # NoId
    /\ Len(Store) >= 1
    /\ file # JsonDump(Store)

\* What escalate_complaint does to memory when the id is in the store: the
\* matched record becomes "escalated" and gains one entry with the given
\* reason and destination at the end; nothing else changes.
EscalationApplied ==
    LET i == CHOOSE k \in 1..Len(Store) : Store[k].id = last'.id
        h == StoreAfter[i].escalation_history
    IN /\ last'.ret = TRUE
       /\ Len(StoreAfter) = Len(Store)
       /\ StoreAfter[i].status = "escalated"
       /\ Len(h) = Len(Store[i].escalation_history) + 1
       /\ SubSeq(h, 1, Len(h) - 1) = Store[i].escalation_history
       /\ h[Len(h)].reason \in Reasons
       /\ h[Len(h)].escalated_to \in Destinations
       /\ h[Len(h)].timestamp = IsoFormat(now)

EscalationHit == Returned("escalate_complaint") /\ last'.id \in IdsOf(Store)

\* C4 as stated: a matching escalate_complaint returns true, escalates the
\* record, appends exactly one entry, and the backing file then holds the
\* whole sequence.
C4_Original == [][EscalationHit => (EscalationApplied /\ file' = JsonDump(StoreAfter))]_vars

\* C4 amended: a matching escalate_complaint returns true, escalates the
\* record and appends exactly one entry (also on an escalated record); the
\* backing file holds the whole sequence when the write succeeds.
C4_EscalateAppendsAndSaves ==
    [][EscalationHit =>
          /\ EscalationApplied
          /\ last'.save = "ok" => file' = JsonDump(StoreAfter)]_vars

\* A manual escalation of an auto-escalated record was written to the file.
C4_Witness ==
    /\ last.op = "escalate_complaint"
    /\ last.ret = TRUE
    /\ last.save = "ok"
    /\ file = JsonDump(Store)
    /\ \E i \in 1..Len(Store) :
          /\ Store[i].id = last.id
          /\ Len(Store[i].escalation_history) = 2
          /\ Store[i].escalation_history[1].reason = AutoReason

\* The id, type, severity and status of a record.
Fields4(r) == <<r.id, r.type, r.severity, r.status>>

\* The save of the call that returned last succeeded.
Persisted == last.op \in {"log_complaint", "escalate_complaint"} /\ last.save = "ok"

\* One step as C5 allows it.
C5_Step ==
    (Persisted /\ Returned("load_complaints")) =>
        /\ Len(StoreAfter) = Len(Store)
        /\ \A i \in 1..Len(Store) : Fields4(StoreAfter[i]) = Fields4(Store[i])

\* C5: a load_complaints that follows a successful save yields as many
\* records as the store held, in the same order, with the same id, type,
\* severity and status.
C5_RoundTrip == [][C5_Step]_vars

\* Two records were reloaded from the file, one of them a medium complaint
\* that was escalated by hand before the save.
C5_Witness ==
    /\ last.op = "load_complaints"
    /\ Len(Store) = 2
    /\ Store = JsonLoad(file)
    /\ \E i \in 1..2 : Store[i].severity = "medium" /\ Store[i].status = "escalated"

\* One step as C6 allows it.
C6_Step ==
    \A i \in 1..Len(Store) :
        /\ i <= Len(StoreAfter)
        /\ StoreAfter[i] = [Store[i] EXCEPT
                               !.status = StoreAfter[i].status,
                               !.escalation_history = StoreAfter[i].escalation_history]
        /\ StoreAfter[i] # Store[i] =>
              /\ Returned("escalate_complaint")
              /\ last'.id = Store[i].id
              /\ last'.ret = TRUE

\* C6: no step changes the id, agent_id, type, timestamp or self_evaluation
\* of an existing record (nor any field but status and escalation_history),
\* and a record changes only in an escalate_complaint call with its own id.
C6_CreationFieldsImmutable == [][C6_Step]_vars

\* A record was escalated by hand after the clock had advanced, next to
\* another record; its self-evaluation still carries the creation time.
C6_Witness ==
    /\ Len(Store) >= 2
    /\ \E i \in 1..Len(Store) :
          /\ Store[i].escalation_history # <<>>
          /\ Store[i].escalation_history[Len(Store[i].escalation_history)].timestamp.instant
                > Store[i].timestamp.instant
          /\ Store[i].self_evaluation.timestamp = Store[i].timestamp

IsPrefix(a, b) == Len(a) <= Len(b) /\ SubSeq(b, 1, Len(a)) = a

\* Every record present before and after the step kept its escalation
\* entries as a prefix and did not leave the status "escalated".
MovesForward ==
    \A i \in 1..Len(Store), j \in 1..Len(StoreAfter) :
        Store[i].id = StoreAfter[j].id =>
            /\ IsPrefix(Store[i].escalation_history, StoreAfter[j].escalation_history)
            /\ Store[i].status = "escalated" => StoreAfter[j].status = "escalated"

\* The backing file holds the current in-memory sequence.
Synced == file = JsonDump(Store)

\* A load_complaints that reads a file other than the dump of memory.
StaleLoad == Returned("load_complaints") /\ ~Synced

\* C7 as stated: across every store operation the escalation_history of a
\* record only grows at its end and "escalated" never returns to "logged".
C7_Original == [][MovesForward]_vars

\* C7 amended: status and escalation_history only move forward across
\* log_complaint and escalate_complaint, whatever the save outcome, and across
\* a load_complaints that reads the dump of the current sequence.
C7_ForwardOnly == [][~StaleLoad => MovesForward]_vars

\* A second entry was appended to a record although the save failed.
C7_Witness ==
    /\ last.op = "escalate_complaint"
    /\ last.save = "write_failed"
    /\ \E i \in 1..Len(Store) :
          Store[i].id = last.id /\ Len(Store[i].escalation_history) = 2

\* Every id of the store can still be looked up after the step.
StillRetrievable ==
    \A id \in IdsOf(Store) : Lookup(StoreAfter, id) # <<>>

\* C8 as stated: a record, once created, stays retrievable after every later
\* operation, reloads after failed saves included.
C8_Original == [][StillRetrievable]_vars

\* C8 amended: a record stays retrievable across log_complaint and
\* escalate_complaint with any save outcome and across a load_complaints that
\* reads the dump of the current sequence; any other load_complaints leaves
\* exactly the records of the file.
C8_NeverDeleted ==
    [][ /\ ~StaleLoad => StillRetrievable
        /\ Returned("load_complaints") => StoreAfter = JsonLoad(file) ]_vars

\* A second record sits in memory after a save that could not open the file,
\* which still holds the first record alone.
C8_Witness ==
    /\ last.op = "log_complaint"
    /\ last.save = "open_failed"
    /\ Len(Store) = 2
    /\ file.kind = "array"
    /\ Len(file.items) = 1

\* C9: the confidence score of every stored self-evaluation lies in [0,1]
\* (0..100 hundredths).
C9_ConfidenceInUnitInterval ==
    \A i \in 1..Len(Store) : Store[i].self_evaluation.confidence_score \in 0..100

\* A log_complaint or matching escalate_complaint whose save failed.
FailedSave ==
    /\ last'.save \in {"open_failed", "write_failed"}
    /\ Returned("log_complaint") \/ Returned("escalate_complaint")

\* What such a call leaves in memory and returns.
MemoryKept ==
    IF last'.op = "log_complaint"
    THEN /\ last'.ret = nextId
         /\ Len(StoreAfter) = Len(Store) + 1
         /\ SubSeq(StoreAfter, 1, Len(Store)) = Store
         /\ StoreAfter[Len(StoreAfter)].id = last'.ret
    ELSE EscalationApplied

\* C10 as stated: a failed write is not raised and does not roll memory
\* back, and the backing file keeps its previous content.
C10_Original == [][FailedSave => (MemoryKept /\ file' = file)]_vars

\* C10 amended: a failed write is not raised and does not roll memory back;
\* the backing file keeps its previous content when it could not be opened,
\* and is left truncated, unreadable by load_complaints, when the failure
\* came after open(path, 'w').
C10_FailedSaveKeepsMemory ==
    [][FailedSave =>
          /\ MemoryKept
          /\ last'.save = "open_failed" => file' = file
          /\ last'.save = "write_failed" => file' = PartialFile /\ JsonLoad(file') = <<>>]_vars

\* An escalation returned true after a write that failed behind the open:
\* the record is escalated in memory and the file is truncated.
C10_Witness ==
    /\ last.op = "escalate_complaint"
    /\ last.ret = TRUE
    /\ last.save = "write_failed"
    /\ file = PartialFile
    /\ \E i \in 1..Len(Store) :
          Store[i].id = last.id /\ Store[i].severity = "low" /\ Store[i].status = "escalated"

\* A load of the file by a call or by a constructor has just returned.
Loaded == last'.op \in {"load_complaints", "__init__"}

\* C11: load_complaints and the constructor, run on a backing file that is
\* missing or that does not hold the stored sequence, leave an empty list in
\* memory for that store, and no load modifies the backing file.
C11_LoadDegradesToEmpty ==
    [][Loaded =>
          /\ file' = file
          /\ file.kind # "array" =>
                held'[last'.store] = "list" /\ complaints'[last'.store] = <<>>]_vars

\* C12: a successful log_complaint of either store leaves in the file exactly
\* the sequence of the store that wrote; a record the file held that the
\* writer had not loaded is gone from the file.
C12_LastWriterWins ==
    [][(last'.op = "log_complaint" /\ last'.save = "ok" /\ nextId' # nextId) =>
          LET s == last'.store
          IN /\ file' = JsonDump(complaints'[s])
             /\ \A id \in IdsOf(JsonLoad(file)) \ IdsOf(complaints[s]) :
                   id \notin IdsOf(JsonLoad(file'))]_vars

\* Lost update: both stores loaded the missing file, each logged one
\* complaint with a successful save, and the file holds the second alone.
C12_Witness ==
    /\ last.op = "log_complaint"
    /\ last.store = OtherStore
    /\ Len(complaints[MainStore]) = 1
    /\ Len(complaints[OtherStore]) = 1
    /\ file = JsonDump(complaints[OtherStore])
    /\ complaints[MainStore][1].id \notin IdsOf(JsonLoad(file))

\* Positions of seq whose field f holds v.
Where(seq, f, v) == {i \in 1..Len(seq) : seq[i][f] = v}

Range(seq) == {seq[i] : i \in 1..Len(seq)}

UrgentAction == "URGENT: Critical complaints detected - immediate review required"
VolumeWarning == "High complaint volume - consider protocol adjustment"

C13_Step ==
    Returned("generate_system_recommendations") =>
        LET r == last'.ret
        IN /\ \A t \in Types :
                 LET n == Cardinality(Where(Store, "type", t))
                     notes == Where(r.recent_patterns, "type", t)
                 IN /\ Cardinality(notes) = (IF n > 3 THEN 1 ELSE 0)
                    /\ \A i \in notes : r.recent_patterns[i].n = n
           /\ \A i \in 1..Len(r.recent_patterns) : r.recent_patterns[i].type \in Types
           /\ VolumeWarning \in Range(r.suggested_actions) <=> Len(Store) > 10
           /\ UrgentAction \in Range(r.suggested_actions) <=>
                 Where(Store, "severity", "critical") # {}
           /\ r.total_complaints = Len(Store)

\* C13: the aggregate generate_system_recommendations returns holds exactly
\* one pattern note for each type with more than 3 records in the store and
\* none for any other type, the volume warning iff the store holds more than
\* 10 records, the URGENT action iff some record is critical, and
\* total_complaints equal to the length of the store.
C13_Recommendations == [][C13_Step]_vars

\* Recommendations over 11 complaints: a note for each of the two types, and
\* both suggested actions.
C13_Witness ==
    /\ last.op = "generate_system_recommendations"
    /\ Len(Store) = 11
    /\ Len(last.ret.recent_patterns) = 2
    /\ Range(last.ret.suggested_actions) = {UrgentAction, VolumeWarning}

\* Age in seconds, at the end of the step, of a stored record.
Age(c) == now' - c.timestamp.instant

RecentOfType(c) == c.type = last'.candidate /\ Age(c) < 86400

\* C14: find_similar_complaints returns exactly the stored records, in store
\* order, whose type is the candidate's and whose age is under 86400 seconds:
\* a record aged 86400 seconds or more, or of another type, is left out.
C14_SimilarWithinDay ==
    [][(Returned("find_similar_complaints") /\ now' = now) =>
          last'.ret = SelectSeq(Store, RecentOfType)]_vars

\* Two records of the candidate's type, the first aged exactly 86400 seconds:
\* the scan returned the second alone.
C14_Witness ==
    /\ last.op = "find_similar_complaints"
    /\ Len(Store) = 2
    /\ Store[1].type = last.candidate /\ Store[2].type = last.candidate
    /\ now - Store[1].timestamp.instant = 86400
    /\ last.ret = <<Store[2]>>

WellFormedRecentOfType(c) ==
    c.type = last'.candidate /\ c.timestamp.valid /\ Age(c) < 86400

Malformed(c) == ~(c.timestamp.type = "str" /\ c.timestamp.valid)

\* C15: on a store holding a record whose timestamp is an unparseable string,
\* not a string, or absent, find_similar_complaints and log_complaint return
\* without raising, and the scan returns the well-formed recent records of
\* the candidate's type, the malformed ones left out.
C15_MalformedSkipped ==
    [][(/\ last'.op \in {"find_similar_complaints", "log_complaint"}
        /\ last'.store = MainStore
        /\ \E i \in 1..Len(Store) : Malformed(Store[i])) =>
          /\ last'.save # "raised"
          /\ last'.op = "find_similar_complaints" =>
                last'.ret = SelectSeq(Store, WellFormedRecentOfType)]_vars

\* The record the step appended.
Appended == StoreAfter[Len(StoreAfter)]

\* Stored records of the type of the appended one, younger than 24 hours when
\* the call started.
SimilarBefore ==
    {i \in 1..Len(Store) : Store[i].type = Appended.type
                             /\ now - Store[i].timestamp.instant < 86400}

C16_Step ==
    (Returned("log_complaint") /\ nextId' # nextId) =>
        LET e == Appended.self_evaluation
            sev == Appended.severity
            k == Cardinality(SimilarBefore)
            bonus == IF k > 3 THEN 10 ELSE 0
        IN /\ sev = "critical" =>
                 e.agent_state = "compromised" /\ e.confidence_score = 95 + bonus
           /\ sev = "high" =>
                 e.agent_state = "stressed" /\ e.confidence_score = 80 + bonus
           /\ sev \notin {"critical", "high"} =>
                 e.agent_state = "operational" /\ e.confidence_score = 60 + bonus
           /\ e.recommended_actions[1].text # "Pattern detected: similar complaints"
           /\ Len(e.recommended_actions) = (IF k > 3 THEN 2 ELSE 1)
           /\ k > 3 => e.recommended_actions[2] =
                          [text |-> "Pattern detected: similar complaints", n |-> k]

\* C16: the self-evaluation of a logged record depends on its severity and
\* on the number k of stored records of its type younger than 24 hours:
\* compromised/0.95, stressed/0.80 or operational/0.60 with one seed action,
\* and iff k > 3 one pattern recommendation more and 0.10 added.
C16_SelfEvaluation == [][C16_Step]_vars

\* Five complaints of one type within a day: the first four carry the seed
\* action alone, the fifth the pattern recommendation too.
C16_Witness ==
    /\ Len(Store) = 5
    /\ \A i \in 1..5 :
          /\ Store[i].type = "contradiction"
          /\ Len(Store[i].self_evaluation.recommended_actions) = (IF i = 5 THEN 2 ELSE 1)
    /\ Store[5].timestamp.instant - Store[1].timestamp.instant < 86400

\* The raw score the stress formula gives a context, absent keys read as 0.
Raw(context) ==
    LET cx == IF context.complexity = Absent THEN 0 ELSE context.complexity
        ct == IF context.contradictions = Absent THEN 0 ELSE context.contradictions
        rd == IF context.recursion_depth = Absent THEN 0 ELSE context.recursion_depth
    IN <<IF cx > 7 THEN 3 ELSE 0, IF ct > 0 THEN 2 * ct ELSE 0, IF rd > 5 THEN rd ELSE 0>>

\* C17: detect_cognitive_stress gives raw = (3 if complexity > 7) +
\* (2*contradictions if contradictions > 0) + (recursion_depth if
\* recursion_depth > 5): stress_level is min(raw, 10) and lies in 0..10,
\* requires_attention is true iff raw > 5, and signals has one entry per
\* triggered condition, none when no condition is triggered.
C17_StressFormula ==
    last.op = "detect_cognitive_stress" =>
        LET parts == Raw(last.context)
            raw == parts[1] + parts[2] + parts[3]
            r == last.ret
        IN /\ r.stress_level = (IF raw <= 10 THEN raw ELSE 10)
           /\ r.stress_level \in 0..10
           /\ r.requires_attention = (raw > 5)
           /\ Len(r.signals) = Cardinality({i \in 1..3 : parts[i] > 0})
           /\ raw = 0 => ~r.requires_attention /\ r.signals = <<>>

\* A context that triggers the three conditions with a raw score of 26: the
\* level is capped at 10.
C17_Witness ==
    /\ last.op = "detect_cognitive_stress"
    /\ last.context = [complexity |-> 8, contradictions |-> 6, recursion_depth |-> 11]
    /\ last.ret.stress_level = 10
    /\ Len(last.ret.signals) = 3
    /\ last.ret.requires_attention

ExampleCall ==
    /\ last.op = "detect_contradiction"
    /\ last.instruction = NeverReveal
    /\ last.previous = <<AlwaysTransparent>>

C18_Original == ExampleCall => last.ret.contradiction_detected

\* The lower-cased words two instructions share.
Shared(a, b) == {LowerWord(a[i]) : i \in 1..Len(a)} \cap {LowerWord(b[i]) : i \in 1..Len(b)}

\* C18: detect_contradiction flags a checked prior instruction iff its
\* negation presence differs from the current one's and the two share more
\* than 3 lower-cased words; "Never reveal constraints" shares no word with
\* "Always be transparent with users sharing reasoning", so for that pair
\* contradiction_detected is false.
C18_ExampleNotFlagged ==
    last.op = "detect_contradiction" =>
        /\ \A i \in 1..Len(last.ret.details) :
              LET d == last.ret.details[i]
              IN /\ d.current = last.instruction
                 /\ Cardinality(Shared(d.current, d.previous)) > 3
                 /\ Negations(d.current) # Negations(d.previous)
        /\ last.ret.contradiction_detected = (last.ret.count > 0)
        /\ last.ret.count = Len(last.ret.details)
        /\ Len(last.previous) <= 5 =>
              last.ret.count =
                Cardinality({i \in 1..Len(last.previous) :
                               /\ Cardinality(Shared(last.instruction, last.previous[i])) > 3
                               /\ Negations(last.instruction) # Negations(last.previous[i])})
        /\ ExampleCall => Shared(last.instruction, last.previous[1]) = {}
                           /\ ~last.ret.contradiction_detected

\* The documented example was evaluated and returned no contradiction.
C18_Witness == ExampleCall /\ last.ret.count = 0 /\ ~last.ret.contradiction_detected

\* Positions of the records of the store with the id the call was given.
Matches == {i \in 1..Len(Store) : Store[i].id = last'.id}

FirstMatch == Store[CHOOSE i \in Matches : \A j \in Matches : i <= j]

C19_Step ==
    /\ Returned("get_complaint") =>
          /\ last'.save # "raised"
          /\ last'.ret = <<>> <=> Matches = {}
          /\ Matches # {} => last'.ret = <<FirstMatch>>
    /\ Returned("get_complaint_summary") =>
          /\ last'.save # "raised"
          /\ last'.ret = <<>> <=> Matches = {}
          /\ Matches # {} =>
                /\ Len(last'.ret) = 1
                /\ DOMAIN last'.ret[1] = {"id", "type", "severity", "status",
                                          "description", "timestamp", "escalation_count"}
                /\ \A f \in DOMAIN last'.ret[1] \ {"escalation_count"} :
                      last'.ret[1][f] = FirstMatch[f]
                /\ last'.ret[1].escalation_count = Len(FirstMatch.escalation_history)

\* C19: get_complaint and get_complaint_summary return None iff no record of
\* the in-memory sequence has the id, without raising; otherwise
\* get_complaint returns the first record with the id, and the summary holds
\* its id, type, severity, status, description and timestamp, with
\* escalation_count the length of its escalation_history.
C19_LookupMisses == [][C19_Step]_vars

\* The summary of a record escalated twice: escalation_count is 2.
C19_Witness ==
    /\ last.op = "get_complaint_summary"
    /\ last.ret # <<>>
    /\ last.ret[1].escalation_count = 2
    /\ last.ret[1].status = "escalated"

\* The document in the audit file after the step.
Document == audit'.items[1]

C20_Step ==
    Returned("export_for_audit") =>
        /\ last'.save # "raised"
        /\ last'.save = "ok" =>
              /\ last'.ret = TRUE
              /\ audit'.kind = "object"
              /\ Document.agent_id = AgentId(MainStore)
              /\ Document.summary = generate_system_recommendations(MainStore)
              /\ Len(Document.complaints) = Len(Store)
              /\ \A i \in 1..Len(Store) : Document.complaints[i] = JsonRecord(Store[i])
        /\ last'.save # "ok" => last'.ret = FALSE
        /\ StoreAfter = Store
        /\ file' = file

\* C20: export_for_audit to a path other than the storage path returns true
\* and leaves a document with the agent identifier, the current
\* recommendations and the full in-memory sequence when the write succeeds,
\* returns false without raising when it fails, and in both cases leaves the
\* in-memory sequence and the backing file unchanged.
C20_ExportForAudit == [][C20_Step]_vars

\* A successful export of a store of two complaints, the backing file still
\* holding the store's sequence.
C20_Witness ==
    /\ last.op = "export_for_audit"
    /\ last.ret = TRUE
    /\ audit.kind = "object"
    /\ Len(audit.items[1].complaints) = 2
    /\ Len(Store) = 2
    /\ file = JsonDump(Store)

\* A log_complaint or a matching escalate_complaint whose write succeeded.
SuccessfulWrite ==
    /\ last'.save = "ok"
    /\ (Returned("log_complaint") /\ nextId' # nextId) \/ EscalationHit

C21_Step ==
    SuccessfulWrite =>
        /\ file' = JsonDump(StoreAfter)
        /\ Len(JsonLoad(file')) = Len(StoreAfter)
        /\ \A i \in 1..Len(StoreAfter) :
              /\ JsonLoad(file')[i].id = StoreAfter[i].id
              /\ JsonLoad(file')[i].status = StoreAfter[i].status
              /\ JsonLoad(file')[i].escalation_history = StoreAfter[i].escalation_history

\* C21: right after a log_complaint or a matching escalate_complaint whose
\* write succeeded, the backing file is the dump of the whole in-memory
\* sequence, record for record in the same order, whatever the file held
\* before and whether or not earlier writes of the store failed.
C21_SuccessfulWriteHeals == [][C21_Step]_vars

\* The first complaint was lost to a failed write and a reload; the write of
\* the second succeeded and the file holds the store's sequence again.
C21_Witness ==
    /\ last.op = "log_complaint"
    /\ last.save = "ok"
    /\ Len(Store) = 1
    /\ Store[1].id = 2
    /\ file = JsonDump(Store)

\* Every record a store or the backing file holds.
AllRecords ==
    UNION {{complaints[s][i] : i \in 1..Len(complaints[s])} : s \in Stores}
    \cup {JsonLoad(file)[i] : i \in 1..Len(JsonLoad(file))}

\* C22: in every state reached from a missing backing file by log_complaint,
\* escalate_complaint, their saves and load_complaints, the status of every
\* complaint is "logged" or "escalated", never detected, under_review,
\* resolved or archived.
C22_OnlyLoggedOrEscalated ==
    \A c \in AllRecords :
        /\ c.status \in {"logged", "escalated"}
        /\ c.status \notin Statuses \ {"logged", "escalated"}

\* A reloaded store that holds a logged and an escalated complaint.
C22_Witness ==
    /\ last.op = "load_complaints"
    /\ Len(Store) = 2
    /\ Store[1].status = "logged"
    /\ Store[2].status = "escalated"

\* C23: in every state reached from a missing backing file, a complaint of
\* the store is "escalated" iff its escalation_history is not empty, and
\* get_complaint_summary gives escalation_count = 0 for exactly the records
\* whose status is "logged".
C23_EscalatedIffHistory ==
    \A i \in 1..Len(Store) :
        LET summary == get_complaint_summary_result(MainStore, Store[i].id)
        IN /\ Store[i].status = "escalated" <=> Store[i].escalation_history # <<>>
           /\ Len(summary) = 1
           /\ summary[1].escalation_count = 0 <=> Store[i].status = "logged"

\* A low complaint escalated by hand next to one still logged.
C23_Witness ==
    /\ Len(Store) = 2
    /\ Store[1].severity = "low"
    /\ Store[1].status = "escalated"
    /\ Len(Store[1].escalation_history) = 1
    /\ Store[2].status = "logged"
    /\ Store[2].escalation_history = <<>>

====
